---- MODULE Spec2Model ----
(***************************************************************************)
(* Model of sync_stats.py: one sync run after another against a world      *)
(* directory (local, or mirrored over SFTP) and a MySQL database.          *)
(***************************************************************************)
EXTENDS Integers, Sequences, FiniteSets, TLC

\* ---------------------------------------------------------------- bounds
MaxRuns == 2        \* sync runs explored
MaxEdits == 1       \* single-file changes of the world between runs

\* ------------------------------------------------------------ input sets
UUIDS == {"p1", "p2"}
NULL == "NULL"
NoFile == "nofile"
StatKeys == {"A", "B"}

SECTION_KEYS ==
    << "minecraft:used", "minecraft:mined", "minecraft:broken",
       "minecraft:custom", "minecraft:killed", "minecraft:crafted",
       "minecraft:dropped", "minecraft:killed_by", "minecraft:picked_up" >>

SectionSet == {SECTION_KEYS[i] : i \in 1..Len(SECTION_KEYS)}

\* JSON values found under a stat key
JInt(n) == [t |-> "int", v |-> n]
JStr == [t |-> "str", v |-> 0]          \* a non-numeric string such as "oops"
JNull == [t |-> "null", v |-> 0]
JInf == [t |-> "inf", v |-> 0]          \* Infinity, accepted by json.load
JNumStr(n) == [t |-> "numstr", v |-> n] \* a string of digits such as "7"

\* a value found where a mapping is expected
Missing == [kind |-> "missing", vals |-> << >>]
Scalar == [kind |-> "scalar", vals |-> << >>]
Map(f) == [kind |-> "map", vals |-> f]

EmptyMap == << >>

\* The per-player documents the stats directory may hold.
DocNames == {"d_ab", "d_a", "d_oops", "d_syntax", "d_array"}

DocContent(d) ==
    CASE d = "d_ab" ->
           [kind |-> "object",
            stats |-> Map([c \in {"minecraft:mined", "minecraft:used"} |->
                            IF c = "minecraft:mined"
                            THEN Map([k \in {"A", "B"} |-> IF k = "A" THEN JInt(1) ELSE JInt(2)])
                            ELSE Scalar])]
      [] d = "d_a" ->
           [kind |-> "object",
            stats |-> Map([c \in {"minecraft:mined"} |->
                            Map([k \in {"A", "B"} |-> IF k = "A" THEN JInt(2) ELSE JStr])])]
      [] d = "d_oops" ->
           [kind |-> "object",
            stats |-> Map([c \in {"minecraft:mined", "minecraft:used"} |->
                            IF c = "minecraft:mined"
                            THEN Map([k \in {"A"} |-> JStr])
                            ELSE Map([k \in {"A"} |-> JInt(1)])])]
      [] d = "d_syntax" -> [kind |-> "syntaxerr", stats |-> Missing]
      [] d = "d_array" -> [kind |-> "array", stats |-> Missing]
      [] d = "d_badutf8" -> [kind |-> "badutf8", stats |-> Missing]
      [] d = "d_empty" -> [kind |-> "object", stats |-> Missing]
      [] d = "d_statsnum" -> [kind |-> "object", stats |-> Scalar]
      [] d = "d_null" ->
           [kind |-> "object",
            stats |-> Map([c \in {"minecraft:mined"} |->
                            Map([k \in {"A", "B"} |-> IF k = "A" THEN JNull ELSE JNumStr(7)])])]
      [] d = "d_inf" ->
           [kind |-> "object",
            stats |-> Map([c \in {"minecraft:mined"} |-> Map([k \in {"A"} |-> JInf])])]
      [] d = "d_other" ->
           [kind |-> "object",
            stats |-> Map([c \in {"minecraft:other", "minecraft:killed"} |->
                            Map([k \in {"A"} |-> JInt(1)])])]

\* The documents parse_stats is applied to on its own.
ParseDocs == DocNames \cup {"d_badutf8", "d_empty", "d_statsnum", "d_null", "d_inf", "d_other"}

\* The usercache.json documents.
UCNames == {"uc_missing", "uc_syntax", "uc_scalar", "uc_alice", "uc_bob"}

UCEntry(hasUuid, uuid, hasName, name) ==
    [kind |-> "object", hasUuid |-> hasUuid, uuid |-> uuid, hasName |-> hasName, name |-> name]

UCContent(u) ==
    CASE u = "uc_missing" -> [kind |-> "missing", entries |-> << >>]
      [] u = "uc_syntax" -> [kind |-> "syntaxerr", entries |-> << >>]
      [] u = "uc_scalar" -> [kind |-> "scalar", entries |-> << >>]
      [] u = "uc_alice" -> [kind |-> "array",
                            entries |-> << UCEntry(TRUE, "p1", TRUE, "Alice") >>]
      [] u = "uc_bob" -> [kind |-> "array",
                          entries |-> << UCEntry(TRUE, "p1", TRUE, "Bob"),
                                         UCEntry(TRUE, "p2", FALSE, NULL),
                                         UCEntry(FALSE, NULL, TRUE, "Carol") >>]

\* ------------------------------------------------------- pure functions

\* int(val): the integer, a caught TypeError/ValueError, or an uncaught error
int(val) ==
    CASE val.t = "int" -> [res |-> "ok", v |-> val.v]
      [] val.t = "numstr" -> [res |-> "ok", v |-> val.v]
      [] val.t = "str" -> [res |-> "skip", v |-> 0]
      [] val.t = "null" -> [res |-> "skip", v |-> 0]
      [] val.t = "inf" -> [res |-> "raise", v |-> 0]

\* the body of the loop over SECTION_KEYS for one section
cleaned(raw_vals) ==
    LET keep == {k \in DOMAIN raw_vals : int(raw_vals[k]).res = "ok"}
    IN [k \in keep |-> int(raw_vals[k]).v]

keep_section_always(c) == TRUE

\* "if cleaned:" - a section is kept only with at least one retained entry
keep_section(c) == DOMAIN c # {}

section_raises(stats_section, section) ==
    /\ section \in DOMAIN stats_section.vals
    /\ stats_section.vals[section].kind = "map"
    /\ \E k \in DOMAIN stats_section.vals[section].vals :
          int(stats_section.vals[section].vals[k]).res = "raise"

raw_vals_of(stats_section, section) ==
    IF section \in DOMAIN stats_section.vals
    THEN stats_section.vals[section]
    ELSE Map(EmptyMap)

parse_stats(d) ==
    LET data == DocContent(d)
        \* data.get("stats", {})
        stats_section == IF data.stats.kind = "missing" THEN Map(EmptyMap) ELSE data.stats
        present == {s \in SectionSet :
                      /\ raw_vals_of(stats_section, s).kind = "map"
                      /\ keep_section(cleaned(raw_vals_of(stats_section, s).vals))}
    IN CASE data.kind = "syntaxerr" -> [res |-> "none", sections |-> EmptyMap, data |-> d]
         [] data.kind # "object" -> [res |-> "raise", sections |-> EmptyMap, data |-> d]
         [] data.stats.kind = "scalar" -> [res |-> "raise", sections |-> EmptyMap, data |-> d]
         [] \E s \in SectionSet : section_raises(stats_section, s) ->
                [res |-> "raise", sections |-> EmptyMap, data |-> d]
         [] OTHER ->
                [res |-> "parsed",
                 sections |-> [s \in present |-> cleaned(raw_vals_of(stats_section, s).vals)],
                 data |-> d]

RECURSIVE uc_fold(_, _)
uc_fold(entries, acc) ==
    IF entries = << >> THEN acc
    ELSE LET entry == Head(entries)
             next == IF entry.hasUuid /\ entry.hasName
                     THEN [u \in (DOMAIN acc) \cup {entry.uuid} |->
                             IF u = entry.uuid THEN entry.name ELSE acc[u]]
                     ELSE acc
         IN uc_fold(Tail(entries), next)

load_usercache(u) ==
    LET doc == UCContent(u)
    IN CASE doc.kind = "missing" -> [res |-> "ok", map |-> EmptyMap]
         [] doc.kind = "syntaxerr" -> [res |-> "ok", map |-> EmptyMap]
         [] doc.kind = "scalar" -> [res |-> "raise", map |-> EmptyMap]
         [] doc.kind = "array" /\ \E i \in DOMAIN doc.entries : doc.entries[i].kind # "object" ->
                [res |-> "raise", map |-> EmptyMap]
         [] OTHER -> [res |-> "ok", map |-> uc_fold(doc.entries, EmptyMap)]


\* ------------------------------------------------------------- database

section_table_map ==
    [s \in SectionSet |->
       CASE s = "minecraft:used" -> "player_stats_used"
         [] s = "minecraft:mined" -> "player_stats_mined"
         [] s = "minecraft:broken" -> "player_stats_broken"
         [] s = "minecraft:custom" -> "player_stats_custom"
         [] s = "minecraft:killed" -> "player_stats_killed"
         [] s = "minecraft:crafted" -> "player_stats_crafted"
         [] s = "minecraft:dropped" -> "player_stats_dropped"
         [] s = "minecraft:killed_by" -> "player_stats_killed_by"
         [] s = "minecraft:picked_up" -> "player_stats_picked_up"]

SectionTables == {section_table_map[s] : s \in SectionSet}
RawTable == "player_stats"
AllTables == {"players", RawTable} \cup SectionTables

PlayersColumns == {"uuid", "name", "first_seen", "last_seen"}
RawColumns == {"uuid", "stats_json", "updated_at"}
SectionColumns == {"id", "uuid", "stat_key", "stat_value", "updated_at"}

\* CREATE TABLE IF NOT EXISTS: a table that exists is left as it is
create_table(sch, table, columns) ==
    IF sch[table] = {} THEN [sch EXCEPT ![table] = columns] ELSE sch

ensure_column(sch, table, column) ==
    IF column \in sch[table] THEN sch ELSE [sch EXCEPT ![table] = @ \cup {column}]

ensure_players_table(sch) ==
    ensure_column(
      ensure_column(create_table(sch, "players", PlayersColumns), "players", "first_seen"),
      "players", "last_seen")

ensure_raw_table(sch, table) ==
    ensure_column(
      ensure_column(create_table(sch, table, RawColumns), table, "stats_json"),
      table, "updated_at")

ensure_section_table(sch, table) ==
    ensure_column(
      ensure_column(
        ensure_column(create_table(sch, table, SectionColumns), table, "stat_key"),
        table, "stat_value"),
      table, "updated_at")

EmptyDb ==
    [players |-> {}, raw |-> {}, sect |-> [t \in SectionTables |-> {}]]

upsert_player_update_only(players, uuid, name, ts) ==
    {IF r.uuid = uuid
     THEN [r EXCEPT !.name = IF name # NULL THEN name ELSE @, !.last_seen = ts]
     ELSE r : r \in players}

upsert_player_overwrite(players, uuid, name, ts) ==
    IF \E r \in players : r.uuid = uuid
    THEN {IF r.uuid = uuid THEN [r EXCEPT !.name = name, !.last_seen = ts] ELSE r : r \in players}
    ELSE players \cup {[uuid |-> uuid, name |-> name, first_seen |-> ts, last_seen |-> ts]}

upsert_player_reseen(players, uuid, name, ts) ==
    {r \in players : r.uuid # uuid}
      \cup {[uuid |-> uuid,
             name |-> IF name = NULL /\ \E r \in players : r.uuid = uuid
                      THEN (CHOOSE r \in players : r.uuid = uuid).name ELSE name,
             first_seen |-> ts, last_seen |-> ts]}

\* INSERT INTO players ... ON DUPLICATE KEY UPDATE
\*   name = COALESCE(VALUES(name), name), last_seen = CURRENT_TIMESTAMP
upsert_player(players, uuid, name, ts) ==
    IF \E r \in players : r.uuid = uuid
    THEN {IF r.uuid = uuid
          THEN [r EXCEPT !.name = IF name # NULL THEN name ELSE @, !.last_seen = ts]
          ELSE r : r \in players}
    ELSE players \cup {[uuid |-> uuid, name |-> name, first_seen |-> ts, last_seen |-> ts]}

\* INSERT INTO raw ... ON DUPLICATE KEY UPDATE stats_json, updated_at.
\* The serialised text json.dumps(raw_stats) is represented by the decoded
\* document it encodes.
upsert_raw(raw, uuid, raw_stats, ts) ==
    IF \E r \in raw : r.uuid = uuid
    THEN {IF r.uuid = uuid THEN [r EXCEPT !.stats_json = raw_stats, !.updated_at = ts] ELSE r
            : r \in raw}
    ELSE raw \cup {[uuid |-> uuid, stats_json |-> raw_stats, updated_at |-> ts]}

section_delete_all(rows, uuid) == {}

\* DELETE FROM table WHERE uuid = %s
section_delete(rows, uuid) == {r \in rows : r.uuid # uuid}

\* executemany(INSERT ... ON DUPLICATE KEY UPDATE stat_value, updated_at)
section_insert(rows, uuid, stats, ts) ==
    {r \in rows : ~(r.uuid = uuid /\ r.stat_key \in DOMAIN stats)}
      \cup {[uuid |-> uuid, stat_key |-> k, stat_value |-> stats[k], updated_at |-> ts]
              : k \in DOMAIN stats}

upsert_section_append(rows, uuid, stats, ts) ==
    rows \cup {[uuid |-> uuid, stat_key |-> k, stat_value |-> stats[k], updated_at |-> ts]
                 : k \in DOMAIN stats}

upsert_section_merge(rows, uuid, stats, ts) ==
    section_insert(rows, uuid, stats, ts)

upsert_section(rows, uuid, stats, ts) ==
    IF stats = EmptyMap
    THEN section_delete(rows, uuid)
    ELSE section_insert(section_delete(rows, uuid), uuid, stats, ts)

autocommit_on == TRUE

\* mysql.connector.connect(..., autocommit=False)
autocommit == FALSE


\* ---------------------------------------------------------------- state

VARIABLES
    files,           \* the world's stats directory: uuid -> document or NoFile
    usercache,       \* the world's usercache.json
    edits,
    now,             \* CURRENT_TIMESTAMP: each run takes place one tick after the last
    pc,              \* position of sync()
    sftp_enabled,    \* remote fetch enabled and configured for this run
    temp_root,       \* the mkdtemp directory of this run exists on disk
    cleanup_fn,      \* sync's cleanup_fn is set
    released,        \* how often cleanup() ran in this run
    stats_dir,       \* the stats directory the run reads (local or mirror)
    usercache_path,  \* the usercache document the run reads
    uuid_to_name,
    conn,            \* "none", "open", "closed"
    schema,          \* table -> columns ({} when the table does not exist)
    committed,       \* the database as committed
    tx,              \* the database as seen inside conn's transaction
    todo,            \* files the glob has not yielded yet
    uuid, parsed, pending, idx,
    processed,
    outcome,         \* "none", "running", "committed", "failed"
    error,           \* the step that raised
    before,          \* committed database when the run started
    lastIn,          \* input of the last committed run
    lastDoc,         \* per player, the last document processed by a committed run
    recent           \* per player and table, the keys of the last non-empty section

world == << files, usercache, edits >>
fetch == << sftp_enabled, temp_root, cleanup_fn, released, stats_dir, usercache_path >>
db == << conn, schema, committed, tx >>
loop == << todo, uuid, parsed, pending, idx, processed >>
ghost == << before, lastIn, lastDoc, recent >>
vars == << files, usercache, edits, now, pc, sftp_enabled, temp_root, cleanup_fn,
           released, stats_dir, usercache_path, uuid_to_name, conn, schema, committed, tx,
           todo, uuid, parsed, pending, idx, processed, outcome, error, before, lastIn,
           lastDoc, recent >>

NoFiles == [u \in UUIDS |-> NoFile]
NoParse == [res |-> "none", sections |-> EmptyMap, data |-> NULL]

Init ==
    /\ files \in [UUIDS -> {"d_ab", NoFile}]
    /\ usercache \in {"uc_alice", "uc_missing"}
    /\ edits = 0 /\ now = 0
    /\ pc = "idle"
    /\ sftp_enabled = FALSE /\ temp_root = FALSE /\ cleanup_fn = FALSE /\ released = 0
    /\ stats_dir = NoFiles /\ usercache_path = "uc_missing"
    /\ uuid_to_name = EmptyMap
    /\ conn = "none"
    /\ schema = [t \in AllTables |-> {}]
    /\ committed = EmptyDb /\ tx = EmptyDb
    /\ todo = {} /\ uuid = NULL /\ parsed = NoParse /\ pending = << >> /\ idx = 1
    /\ processed = 0
    /\ outcome = "none" /\ error = NULL
    /\ before = EmptyDb
    /\ lastIn = [set |-> FALSE, files |-> NoFiles, names |-> EmptyMap]
    /\ lastDoc = [u \in UUIDS |-> NULL]
    /\ recent = [u \in UUIDS |-> [t \in SectionTables |-> {}]]

\* ---------------------------------------------------------- environment

\* the game server rewrites one player's file
EditFile ==
    /\ pc = "idle" /\ edits < MaxEdits
    /\ \E u \in UUIDS, d \in DocNames \cup {NoFile} :
          /\ d # files[u]
          /\ files' = [files EXCEPT ![u] = d]
    /\ edits' = edits + 1
    /\ UNCHANGED << usercache, now, pc, fetch, uuid_to_name, db, loop, outcome, error,
                    ghost >>

EditUsercache ==
    /\ pc = "idle" /\ edits < MaxEdits
    /\ \E c \in UCNames : c # usercache /\ usercache' = c
    /\ edits' = edits + 1
    /\ UNCHANGED << files, now, pc, fetch, uuid_to_name, db, loop, outcome, error,
                    ghost >>

\* ------------------------------------------------ exits of sync()

\* an exception that leaves sync() outside the try/finally of lines 361-415
RaiseOutside(err) ==
    /\ pc' = "idle" /\ outcome' = "failed" /\ error' = err
    /\ stats_dir' = NoFiles /\ usercache_path' = "uc_missing" /\ uuid_to_name' = EmptyMap
    /\ UNCHANGED << world, now, sftp_enabled, cleanup_fn, released, db, loop, ghost >>

\* an exception raised inside the try of lines 361-410
RaiseInside(err) ==
    /\ pc' = "finally" /\ outcome' = "failed" /\ error' = err
    /\ UNCHANGED << world, now, fetch, uuid_to_name, conn, schema, committed, tx, loop,
                    ghost >>

\* ------------------------------------------------------- sync(): source

StartRun_connect_first ==
    /\ pc = "idle" /\ now < MaxRuns
    /\ now' = now + 1
    /\ \E enabled \in BOOLEAN :
          /\ sftp_enabled' = enabled
          /\ IF enabled
             THEN /\ pc' = "mkdtemp"
                  /\ stats_dir' = NoFiles /\ usercache_path' = "uc_missing"
             ELSE /\ pc' = "stats_dir"
                  /\ stats_dir' = files /\ usercache_path' = usercache
    /\ temp_root' = FALSE /\ cleanup_fn' = FALSE /\ released' = 0
    /\ uuid_to_name' = EmptyMap
    /\ conn' = "open"
    /\ todo' = {} /\ uuid' = NULL /\ parsed' = NoParse /\ pending' = << >> /\ idx' = 1
    /\ processed' = 0
    /\ outcome' = "running" /\ error' = NULL
    /\ before' = committed
    /\ UNCHANGED << world, schema, committed, tx, lastIn, lastDoc, recent >>

StartRun ==
    /\ pc = "idle" /\ now < MaxRuns
    /\ now' = now + 1
    /\ \E enabled \in BOOLEAN :
          /\ sftp_enabled' = enabled
          /\ IF enabled
             THEN /\ pc' = "mkdtemp"
                  /\ stats_dir' = NoFiles /\ usercache_path' = "uc_missing"
             ELSE /\ pc' = "stats_dir"
                  /\ stats_dir' = files /\ usercache_path' = usercache
    /\ temp_root' = FALSE /\ cleanup_fn' = FALSE /\ released' = 0
    /\ uuid_to_name' = EmptyMap
    /\ conn' = "none"
    /\ todo' = {} /\ uuid' = NULL /\ parsed' = NoParse /\ pending' = << >> /\ idx' = 1
    /\ processed' = 0
    /\ outcome' = "running" /\ error' = NULL
    /\ before' = committed
    /\ UNCHANGED << world, schema, committed, tx, lastIn, lastDoc, recent >>

FetchStep(next) ==
    /\ pc' = next
    /\ UNCHANGED << world, now, sftp_enabled, cleanup_fn, released, uuid_to_name, db,
                    loop, outcome, error, ghost >>

\* tempfile.mkdtemp and local_world.mkdir
Mkdtemp ==
    /\ pc = "mkdtemp"
    /\ temp_root' = TRUE
    /\ FetchStep("transport")
    /\ UNCHANGED << stats_dir, usercache_path >>

\* paramiko.Transport((host, port)) opens the socket, before the try block
Transport ==
    /\ pc = "transport"
    /\ \/ FetchStep("connect") /\ UNCHANGED << temp_root, stats_dir, usercache_path >>
       \/ RaiseOutside("transport") /\ UNCHANGED temp_root

\* the except clause of lines 217-219, followed by sync's of lines 339-343
\* where cleanup_fn is still unset
FetchFail(err) ==
    /\ temp_root' = FALSE
    /\ RaiseOutside(err)

\* transport.connect(username, password) and SFTPClient.from_transport
Connect ==
    /\ pc = "connect"
    /\ \/ FetchStep("get_usercache") /\ UNCHANGED << temp_root, stats_dir, usercache_path >>
       \/ FetchFail("auth")

GetUsercache_strict ==
    /\ pc = "get_usercache"
    /\ \/ /\ usercache # "uc_missing"
          /\ usercache_path' = usercache
          /\ FetchStep("listdir") /\ UNCHANGED << temp_root, stats_dir >>
       \/ FetchFail("usercache_missing")
       \/ FetchFail("get_usercache")

\* sftp.get of usercache.json: an IOError is logged and ignored
GetUsercache ==
    /\ pc = "get_usercache"
    /\ \/ /\ usercache # "uc_missing"
          /\ usercache_path' = usercache
          /\ FetchStep("listdir") /\ UNCHANGED << temp_root, stats_dir >>
       \/ FetchStep("listdir") /\ UNCHANGED << temp_root, stats_dir, usercache_path >>
       \/ FetchFail("get_usercache")

Listdir ==
    /\ pc = "listdir"
    /\ \/ FetchStep("download") /\ UNCHANGED << temp_root, stats_dir, usercache_path >>
       \/ FetchFail("listdir")

\* the download loop, the return of (local_world, cleanup) and lines 332-336
Download ==
    /\ pc = "download"
    /\ \/ /\ stats_dir' = files
          /\ cleanup_fn' = TRUE
          /\ pc' = "stats_dir"
          /\ UNCHANGED << world, now, sftp_enabled, temp_root, released,
                          usercache_path, uuid_to_name, db, loop, outcome, error, ghost >>
       \/ FetchFail("download")

\* "if not stats_dir.exists()": the mirror always has its stats directory
StatsDirCheck ==
    /\ pc = "stats_dir"
    /\ \/ /\ pc' = "load_usercache"
          /\ UNCHANGED << world, now, fetch, uuid_to_name, db, loop, outcome, error,
                          ghost >>
       \/ /\ ~sftp_enabled
          /\ RaiseOutside("stats_dir") /\ UNCHANGED temp_root

LoadUsercache ==
    /\ pc = "load_usercache"
    /\ LET r == load_usercache(usercache_path)
       IN IF r.res = "ok"
          THEN /\ uuid_to_name' = r.map
               /\ pc' = "connect_db"
               /\ UNCHANGED << world, now, fetch, db, loop, outcome, error, ghost >>
          ELSE RaiseOutside("load_usercache") /\ UNCHANGED temp_root

ConnectDb ==
    /\ pc = "connect_db"
    /\ \/ /\ conn' = "open" /\ tx' = committed
          /\ pc' = "ensure_players"
          /\ UNCHANGED << world, now, fetch, uuid_to_name, schema, committed, loop,
                          outcome, error, ghost >>
       \/ RaiseOutside("connect_db") /\ UNCHANGED temp_root


\* ------------------------------------------------------- sync(): schema

SchemaStep(sch, next) ==
    /\ schema' = sch
    /\ committed' = tx                     \* conn.commit() at the end of ensure_*
    /\ pc' = next
    /\ UNCHANGED << world, now, fetch, uuid_to_name, conn, tx, uuid, parsed, pending,
                    processed, outcome, error, ghost >>

EnsurePlayers ==
    /\ pc = "ensure_players"
    /\ \/ SchemaStep(ensure_players_table(schema), "ensure_raw") /\ UNCHANGED << todo, idx >>
       \/ RaiseInside("ensure_players")

EnsureRaw ==
    /\ pc = "ensure_raw"
    /\ \/ SchemaStep(ensure_raw_table(schema, RawTable), "ensure_section")
            /\ UNCHANGED << todo, idx >>
       \/ RaiseInside("ensure_raw")

EnsureSection_first_only ==
    /\ pc = "ensure_section"
    /\ \/ LET table == section_table_map[SECTION_KEYS[idx]]
          IN /\ SchemaStep(ensure_section_table(schema, table), "loop")
             /\ idx' = 1
             /\ todo' = {u \in UUIDS : stats_dir[u] # NoFile}
       \/ RaiseInside("ensure_section")

\* one iteration of "for table in section_table_map.values()"
EnsureSection ==
    /\ pc = "ensure_section"
    /\ \/ LET table == section_table_map[SECTION_KEYS[idx]]
          IN IF idx < Len(SECTION_KEYS)
             THEN /\ SchemaStep(ensure_section_table(schema, table), "ensure_section")
                  /\ idx' = idx + 1
                  /\ UNCHANGED todo
             ELSE /\ SchemaStep(ensure_section_table(schema, table), "loop")
                  /\ idx' = 1
                  /\ todo' = {u \in UUIDS : stats_dir[u] # NoFile}   \* stats_dir.glob("*.json")
       \/ RaiseInside("ensure_section")

\* -------------------------------------------------- sync(): data writes

\* a statement executed on conn: visible in the transaction, and committed
\* at once only under autocommit
Write(newtx, next) ==
    /\ tx' = newtx
    /\ committed' = IF autocommit THEN newtx ELSE committed
    /\ pc' = next
    /\ UNCHANGED << world, now, fetch, uuid_to_name, conn, schema, todo, uuid, parsed,
                    idx, processed, outcome, error, ghost >>

\* the glob yields the next file and parse_stats reads it
NextFile ==
    /\ pc = "loop" /\ todo # {}
    /\ \E u \in todo :
          LET r == parse_stats(stats_dir[u])
          IN CASE r.res = "none" ->
                    /\ todo' = todo \ {u}
                    /\ UNCHANGED << world, now, pc, fetch, uuid_to_name, db, uuid,
                                    parsed, pending, idx, processed, outcome, error, ghost >>
               [] r.res = "raise" -> RaiseInside("parse_stats")
               [] OTHER ->
                    /\ todo' = todo \ {u}
                    /\ uuid' = u /\ parsed' = r
                    /\ pc' = "upsert_player"
                    /\ UNCHANGED << world, now, fetch, uuid_to_name, db, pending, idx,
                                    processed, outcome, error, ghost >>

player_name == IF uuid \in DOMAIN uuid_to_name THEN uuid_to_name[uuid] ELSE NULL

UpsertPlayer ==
    /\ pc = "upsert_player"
    /\ \/ /\ Write([tx EXCEPT !.players = upsert_player(@, uuid, player_name, now)],
                   "upsert_raw")
          /\ UNCHANGED pending
       \/ RaiseInside("upsert_player")

UpsertRaw ==
    /\ pc = "upsert_raw"
    /\ \/ /\ Write([tx EXCEPT !.raw = upsert_raw(@, uuid, parsed.data, now)],
                   "upsert_section")
          \* sections.items() iterates in insertion order, that of SECTION_KEYS
          /\ pending' = SelectSeq(SECTION_KEYS, LAMBDA s : s \in DOMAIN parsed.sections)
       \/ RaiseInside("upsert_raw")

UpsertSection ==
    /\ pc = "upsert_section" /\ pending # << >>
    /\ \/ LET section_key == Head(pending)
              table == section_table_map[section_key]
          IN /\ Write([tx EXCEPT !.sect[table] =
                          upsert_section(@, uuid, parsed.sections[section_key], now)],
                      "upsert_section")
             /\ pending' = Tail(pending)
       \/ RaiseInside("upsert_section")

\* processed += 1
FileDone ==
    /\ pc = "upsert_section" /\ pending = << >>
    /\ processed' = processed + 1
    /\ uuid' = NULL /\ parsed' = NoParse
    /\ pc' = "loop"
    /\ UNCHANGED << world, now, fetch, uuid_to_name, db, todo, pending, idx, outcome,
                    error, ghost >>

Parsed(u) == stats_dir[u] # NoFile /\ parse_stats(stats_dir[u]).res = "parsed"

Commit ==
    /\ pc = "loop" /\ todo = {}
    /\ \/ /\ committed' = tx
          /\ outcome' = "committed"
          /\ pc' = "finally"
          /\ lastIn' = [set |-> TRUE, files |-> stats_dir, names |-> uuid_to_name]
          /\ lastDoc' = [u \in UUIDS |-> IF Parsed(u) THEN stats_dir[u] ELSE lastDoc[u]]
          /\ recent' = [u \in UUIDS |-> [t \in SectionTables |->
                          LET s == CHOOSE x \in SectionSet : section_table_map[x] = t
                          IN IF Parsed(u) /\ s \in DOMAIN parse_stats(stats_dir[u]).sections
                             THEN DOMAIN parse_stats(stats_dir[u]).sections[s]
                             ELSE recent[u][t]]]
          /\ UNCHANGED << world, now, fetch, uuid_to_name, conn, schema, tx, loop,
                          error, before >>
       \/ RaiseInside("commit")

\* the finally clause: conn.close() discards what was not committed, then
\* cleanup_fn() if it is set
Finally ==
    /\ pc = "finally"
    /\ conn' = "closed" /\ tx' = committed
    /\ IF cleanup_fn
       THEN temp_root' = FALSE /\ released' = released + 1
       ELSE UNCHANGED << temp_root, released >>
    /\ pc' = "idle"
    /\ stats_dir' = NoFiles /\ usercache_path' = "uc_missing" /\ uuid_to_name' = EmptyMap
    /\ todo' = {} /\ uuid' = NULL /\ parsed' = NoParse /\ pending' = << >> /\ idx' = 1
    /\ before' = committed
    /\ UNCHANGED << world, now, sftp_enabled, cleanup_fn, schema, committed, processed,
                    outcome, error, lastIn, lastDoc, recent >>

Next ==
    \/ EditFile \/ EditUsercache
    \/ StartRun
    \/ Mkdtemp \/ Transport \/ Connect \/ GetUsercache \/ Listdir \/ Download
    \/ StatsDirCheck \/ LoadUsercache \/ ConnectDb
    \/ EnsurePlayers \/ EnsureRaw \/ EnsureSection
    \/ NextFile \/ UpsertPlayer \/ UpsertRaw \/ UpsertSection \/ FileDone
    \/ Commit \/ Finally

Spec == Init /\ [][Next]_vars

\* ------------------------------------------------- parse_stats on its own

InitParse ==
    /\ files \in [UUIDS -> ParseDocs]
    /\ usercache = "uc_missing"
    /\ edits = 0 /\ now = 0
    /\ pc = "parse"
    /\ sftp_enabled = FALSE /\ temp_root = FALSE /\ cleanup_fn = FALSE /\ released = 0
    /\ stats_dir = files /\ usercache_path = "uc_missing"
    /\ uuid_to_name = EmptyMap
    /\ conn = "none"
    /\ schema = [t \in AllTables |-> {}]
    /\ committed = EmptyDb /\ tx = EmptyDb
    /\ todo = UUIDS /\ uuid = NULL /\ parsed = NoParse /\ pending = << >> /\ idx = 1
    /\ processed = 0
    /\ outcome = "none" /\ error = NULL
    /\ before = EmptyDb
    /\ lastIn = [set |-> FALSE, files |-> NoFiles, names |-> EmptyMap]
    /\ lastDoc = [u \in UUIDS |-> NULL]
    /\ recent = [u \in UUIDS |-> [t \in SectionTables |-> {}]]

\* parsed = parse_stats(stats_file)
ParseFile ==
    /\ pc = "parse"
    /\ \E u \in todo :
          /\ uuid' = u
          /\ parsed' = parse_stats(stats_dir[u])
          /\ todo' = todo \ {u}
    /\ UNCHANGED << world, now, pc, fetch, uuid_to_name, db, pending, idx, processed, outcome,
                    error, ghost >>

NextParse == ParseFile

SpecParse == InitParse /\ [][NextParse]_vars

\* --------------------------------------------- the ensure_* functions alone

\* column sets a table can have before reconciliation; {} is "no such table"
PlayersBefore ==
    {{}, {"uuid"}, {"uuid", "name"}, {"uuid", "first_seen", "last_seen"}, PlayersColumns,
     PlayersColumns \cup {"legacy"}}
RawBefore == {{}, {"uuid"}, RawColumns}
SectionBefore == {{}, {"uuid", "stat_key"}, SectionColumns}

InitSchema ==
    /\ files = NoFiles
    /\ usercache = "uc_missing"
    /\ edits = 0 /\ now = 1
    /\ pc = "ensure_players"
    /\ sftp_enabled = FALSE /\ temp_root = FALSE /\ cleanup_fn = FALSE /\ released = 0
    /\ stats_dir = files /\ usercache_path = "uc_missing"
    /\ uuid_to_name = EmptyMap
    /\ conn = "open"
    /\ \E p \in PlayersBefore, r \in RawBefore, s1 \in SectionBefore, s2 \in SectionBefore :
          schema = [t \in AllTables |->
                      IF t = "players" THEN p
                      ELSE IF t = RawTable THEN r
                      ELSE IF t = section_table_map[SECTION_KEYS[1]] THEN s1
                      ELSE s2]
    /\ committed = EmptyDb /\ tx = EmptyDb
    /\ todo = {} /\ uuid = NULL /\ parsed = NoParse /\ pending = << >> /\ idx = 1
    /\ processed = 0
    /\ outcome = "running" /\ error = NULL
    /\ before = EmptyDb
    /\ lastIn = [set |-> FALSE, files |-> NoFiles, names |-> EmptyMap]
    /\ lastDoc = [u \in UUIDS |-> NULL]
    /\ recent = [u \in UUIDS |-> [t \in SectionTables |-> {}]]

\* the ensure_* functions are invoked again, in the same order, right after
\* the previous invocation returned
Reinvoke ==
    /\ pc = "loop" /\ now < MaxRuns
    /\ pc' = "ensure_players"
    /\ now' = now + 1
    /\ UNCHANGED << world, fetch, uuid_to_name, db, loop, outcome, error, ghost >>

NextSchema == EnsurePlayers \/ EnsureRaw \/ EnsureSection \/ Reinvoke

SpecSchema == InitSchema /\ [][NextSchema]_vars

TypeOK ==
    /\ pc \in {"parse", "idle", "mkdtemp", "transport", "connect", "get_usercache", "listdir",
               "download", "stats_dir", "load_usercache", "connect_db", "ensure_players",
               "ensure_raw", "ensure_section", "loop", "upsert_player", "upsert_raw",
               "upsert_section", "finally"}
    /\ outcome \in {"none", "running", "committed", "failed"}
    /\ now \in 0..MaxRuns /\ edits \in 0..MaxEdits


\* ================================================================ claims

RowsOf(rows, u) == {r \in rows : r.uuid = u}
KeysOf(rows, u) == {r.stat_key : r \in RowsOf(rows, u)}
KV(rows, u) == {<< r.stat_key, r.stat_value >> : r \in RowsOf(rows, u)}
Committing == pc = "loop" /\ pc' = "finally" /\ outcome' = "committed"
AfterCommit == pc = "finally" /\ outcome = "committed"
Mined == section_table_map["minecraft:mined"]

\* C1: a failure while opening the transport, authenticating or listing the
\* remote stats directory leaves no temporary directory behind.
C1_TempRemovedOnFetchFailure ==
    (outcome = "failed" /\ error \in {"transport", "auth", "listdir"}) => ~temp_root

\* C2: when the fetch returned a release function, sync ends with the release
\* invoked exactly once, the temporary directory gone and no connection open.
C2_ReleasedOnEveryExit ==
    (pc = "idle" /\ cleanup_fn /\ outcome \in {"committed", "failed"})
        => (released = 1 /\ ~temp_root /\ conn # "open")

\* C3: the committed database changes only by the one commit issued when no
\* file is left to process, and a run that failed has committed nothing: the
\* committed tables equal those at the start of the run.
C3_SingleCommit ==
    /\ [][committed' # committed => (pc = "loop" /\ todo = {} /\ pc' = "finally"
                                      /\ committed' = tx)]_vars
    /\ [](outcome \in {"running", "failed"} => committed = before)

C3_Witness ==
    /\ pc = "finally" /\ outcome = "failed" /\ error = "upsert_section"
    /\ tx # committed /\ committed.players # {}

\* C4: after a committed run, for every processed player and every section
\* the parse retained with a non-empty key/value set S, the player's rows in
\* that section's table are exactly S, one row per key.
C4_FullReplacement ==
    AfterCommit =>
        \A u \in UUIDS : Parsed(u) =>
            \A s \in DOMAIN parse_stats(stats_dir[u]).sections :
                LET S == parse_stats(stats_dir[u]).sections[s]
                    rows == committed.sect[section_table_map[s]]
                IN /\ KV(rows, u) = {<< k, S[k] >> : k \in DOMAIN S}
                   /\ Cardinality(RowsOf(rows, u)) = Cardinality(DOMAIN S)

C4_Witness ==
    /\ AfterCommit
    /\ \E u \in UUIDS :
          /\ stats_dir[u] = "d_a"
          /\ \E r \in before.sect[Mined] : r.uuid = u /\ r.stat_key = "B"
          /\ KV(committed.sect[Mined], u) = {<< "A", 2 >>}

LastKeys(u, s) ==
    IF lastDoc[u] # NULL /\ s \in DOMAIN parse_stats(lastDoc[u]).sections
    THEN DOMAIN parse_stats(lastDoc[u]).sections[s]
    ELSE {}

\* C5 as stated: the keys stored for a player in a section table are the
\* keys that parsed to integers in the player's most recent input.
C5_KeysOfMostRecentInput ==
    \A u \in UUIDS, s \in SectionSet :
        KeysOf(committed.sect[section_table_map[s]], u) = LastKeys(u, s)

\* C5 amended: the keys stored for a player in a section table are the keys
\* that parsed to integers in the most recent committed input of the player
\* in which that section retained at least one entry (none if there is no
\* such input).
C5_KeysOfMostRecentNonEmptySection ==
    \A u \in UUIDS, t \in SectionTables : KeysOf(committed.sect[t], u) = recent[u][t]

C5_Witness ==
    /\ pc = "idle" /\ outcome = "committed"
    /\ \E u \in UUIDS :
          /\ lastDoc[u] = "d_oops"
          /\ KeysOf(committed.sect[Mined], u) = {"A", "B"}

\* a section that the document does not give as a mapping with at least one
\* integer value
SectionAbsent(d, s) ==
    LET data == DocContent(d)
    IN \/ data.stats.kind # "map"
       \/ s \notin DOMAIN data.stats.vals
       \/ data.stats.vals[s].kind # "map"
       \/ \A k \in DOMAIN data.stats.vals[s].vals : data.stats.vals[s].vals[k].t # "int"

\* C6: while and after a file is processed, the player's rows in the table of
\* every section absent from the parsed result are the rows the run found.
C6_AbsentSectionUntouched ==
    \A u \in UUIDS, s \in SectionSet :
        (stats_dir[u] # NoFile /\ DocContent(stats_dir[u]).kind = "object"
            /\ SectionAbsent(stats_dir[u], s))
        => /\ RowsOf(tx.sect[section_table_map[s]], u)
                = RowsOf(before.sect[section_table_map[s]], u)
           /\ RowsOf(committed.sect[section_table_map[s]], u)
                = RowsOf(before.sect[section_table_map[s]], u)

C6_Witness ==
    /\ AfterCommit
    /\ \E u \in UUIDS :
          /\ stats_dir[u] = "d_oops"
          /\ RowsOf(committed.sect[Mined], u) # {}

NameOf(players, u) == (CHOOSE r \in players : r.uuid = u).name

\* C7: a committed non-null name never becomes null; a committed run that
\* processes the player's file keeps the stored name when the usercache has
\* no name for the player and stores the usercache's name otherwise.
C7_NameNeverNulled ==
    [][/\ \A r \in committed.players : r.name # NULL =>
             \E q \in committed'.players : q.uuid = r.uuid /\ q.name # NULL
       /\ Committing =>
             \A u \in UUIDS : Parsed(u) =>
                 NameOf(committed'.players, u) =
                     IF u \in DOMAIN uuid_to_name /\ uuid_to_name[u] # NULL
                     THEN uuid_to_name[u]
                     ELSE IF \E r \in committed.players : r.uuid = u
                          THEN NameOf(committed.players, u) ELSE NULL]_vars

C7_Witness ==
    /\ AfterCommit
    /\ \E u \in UUIDS :
          /\ Parsed(u) /\ u \notin DOMAIN uuid_to_name
          /\ \E r \in before.players : r.uuid = u /\ r.name # NULL
          /\ NameOf(committed.players, u) = NameOf(before.players, u)

SameInput == lastIn = [set |-> TRUE, files |-> stats_dir, names |-> uuid_to_name]

\* C8 as stated: a committed run on the input of the previous committed run
\* changes nothing in the tables.
C8_Idempotent ==
    [][(Committing /\ SameInput) => committed' = committed]_vars

\* the tables without the refreshed time stamps
Content(d) ==
    [players |-> {[uuid |-> r.uuid, name |-> r.name, first_seen |-> r.first_seen]
                    : r \in d.players},
     raw |-> {[uuid |-> r.uuid, stats_json |-> r.stats_json] : r \in d.raw},
     sect |-> [t \in SectionTables |->
                 {[uuid |-> r.uuid, stat_key |-> r.stat_key, stat_value |-> r.stat_value]
                    : r \in d.sect[t]}]]

\* C8 amended: a committed run on the input of the previous committed run
\* changes nothing but last_seen and updated_at: players, names, first_seen,
\* raw documents and section keys and values stay the same.
C8_IdempotentContent ==
    [][(Committing /\ SameInput) => Content(committed') = Content(committed)]_vars

C8_Witness ==
    /\ pc = "loop" /\ todo = {} /\ SameInput
    /\ processed = 2
    /\ tx # committed /\ Content(tx) = Content(committed)

\* C9: malformed files do not abort the run: parse_stats never ends it, and a
\* committed run has processed every well-formed file, written its rows and
\* left the rows of the players of malformed files as they were.
C9_FaultIsolation ==
    /\ ~(outcome = "failed" /\ error = "parse_stats")
    /\ AfterCommit =>
          /\ processed = Cardinality({u \in UUIDS : stats_dir[u] # NoFile
                                        /\ DocContent(stats_dir[u]).kind = "object"})
          /\ \A u \in UUIDS :
                IF stats_dir[u] # NoFile /\ DocContent(stats_dir[u]).kind = "object"
                THEN \E r \in committed.raw : r.uuid = u /\ r.stats_json = stats_dir[u]
                ELSE /\ RowsOf(committed.players, u) = RowsOf(before.players, u)
                     /\ RowsOf(committed.raw, u) = RowsOf(before.raw, u)

\* C10: load_usercache never ends the run, and a missing or malformed
\* usercache gives the empty mapping.
C10_UsercacheNeverFatal ==
    /\ ~(outcome = "failed" /\ error = "load_usercache")
    /\ (pc = "connect_db" /\ UCContent(usercache_path).kind # "array")
          => uuid_to_name = EmptyMap

Acquiring == pc \in {"mkdtemp", "transport", "connect", "get_usercache", "listdir", "download"}
AcquisitionFailed ==
    outcome = "failed" /\ error \in {"transport", "auth", "get_usercache", "listdir", "download"}

\* C11: a run whose source acquisition fails ends failed with the database
\* connection never opened, and no step of the acquisition touches the schema
\* or the tables.
C11_NoDatabaseOnFetchFailure ==
    /\ [](AcquisitionFailed => (pc = "idle" /\ conn = "none" /\ committed = before
                                /\ tx = before))
    /\ [][Acquiring => (conn' = "none" /\ schema' = schema /\ committed' = committed
                        /\ tx' = tx)]_vars

C11_Witness ==
    /\ AcquisitionFailed /\ error = "listdir"
    /\ conn = "none" /\ committed.players # {} /\ committed = before

SectionOf(t) == CHOOSE s \in SectionSet : section_table_map[s] = t

\* the statements sync issues for one file, applied to the database d
ApplyFile(d, u, doc, names, ts) ==
    LET r == parse_stats(doc)
    IN IF r.res # "parsed" THEN d
       ELSE [players |-> upsert_player(d.players, u,
                                       IF u \in DOMAIN names THEN names[u] ELSE NULL, ts),
             raw |-> upsert_raw(d.raw, u, r.data, ts),
             sect |-> [t \in SectionTables |->
                         IF SectionOf(t) \in DOMAIN r.sections
                         THEN upsert_section(d.sect[t], u, r.sections[SectionOf(t)], ts)
                         ELSE d.sect[t]]]

RECURSIVE ApplyInOrder(_, _, _, _, _)
ApplyInOrder(d, order, dir, names, ts) ==
    IF order = << >> THEN d
    ELSE ApplyInOrder(ApplyFile(d, Head(order), dir[Head(order)], names, ts),
                      Tail(order), dir, names, ts)

\* every order in which the glob may yield the files of a directory
Orders(dir) ==
    LET present == {u \in UUIDS : dir[u] # NoFile}
    IN {o \in [1..Cardinality(present) -> present] :
          \A i, j \in DOMAIN o : i # j => o[i] # o[j]}

UniqueSection(rows) ==
    \A r1, r2 \in rows : (r1.uuid = r2.uuid /\ r1.stat_key = r2.stat_key) => r1 = r2
UniqueRaw(rows) == \A r1, r2 \in rows : r1.uuid = r2.uuid => r1 = r2

\* C13: in the committed database and inside the transaction, a section
\* table has at most one row per (uuid, stat_key) and the raw table at most
\* one record per uuid.
C13_UniqueRows ==
    \A d \in {committed, tx} :
        /\ UniqueRaw(d.raw)
        /\ \A t \in SectionTables : UniqueSection(d.sect[t])

C13_Witness ==
    /\ pc = "upsert_section" /\ pending = << >> /\ now = 2
    /\ \E r \in tx.sect[Mined] : r.uuid = uuid /\ r.updated_at = now
    /\ RowsOf(committed.sect[Mined], uuid) # {}
    /\ \E r \in committed.raw : r.uuid = uuid

\* C14: first_seen of a committed player row never changes and last_seen
\* never decreases; a committed run sets last_seen of every player it
\* processed to the run's time, and first_seen too when the row is new; in
\* every row first_seen is not later than last_seen.
C14_FirstSeenKept ==
    /\ [](\A d \in {committed, tx} : \A r \in d.players : r.first_seen <= r.last_seen)
    /\ [][/\ \A r \in committed.players :
                \E q \in committed'.players :
                    /\ q.uuid = r.uuid
                    /\ q.first_seen = r.first_seen
                    /\ q.last_seen >= r.last_seen
          /\ Committing =>
                \A u \in UUIDS : Parsed(u) =>
                    \E q \in committed'.players :
                        /\ q.uuid = u /\ q.last_seen = now
                        /\ (RowsOf(committed.players, u) = {} => q.first_seen = now)]_vars

C14_Witness ==
    /\ AfterCommit
    /\ \E r \in committed.players : Parsed(r.uuid) /\ r.first_seen = 1 /\ r.last_seen = 2

\* a value that coerces to an integer, and the integer
Coerces(val) == val.t \in {"int", "numstr"}

\* the entries of section s of an object document that coerce to integers
IntEntries(data, s) ==
    IF data.stats.kind = "map" /\ s \in DOMAIN data.stats.vals
          /\ data.stats.vals[s].kind = "map"
    THEN LET m == data.stats.vals[s].vals
         IN {<< k, m[k].v >> : k \in {x \in DOMAIN m : Coerces(m[x])}}
    ELSE {}

\* C15: parse_stats never raises, and for a document that decodes to an
\* object its section map holds a section of the fixed list exactly when the
\* document gives it as a mapping with an entry that coerces to an integer,
\* with exactly those entries.
C15_ParserTotal ==
    uuid # NULL =>
        LET data == DocContent(stats_dir[uuid])
        IN /\ parsed.res # "raise"
           /\ data.kind = "object" =>
                 /\ parsed.res = "parsed"
                 /\ \A s \in DOMAIN parsed.sections : s \in SectionSet
                 /\ \A s \in SectionSet :
                       /\ s \in DOMAIN parsed.sections <=> IntEntries(data, s) # {}
                       /\ s \in DOMAIN parsed.sections =>
                             {<< k, parsed.sections[s][k] >> : k \in DOMAIN parsed.sections[s]}
                                 = IntEntries(data, s)

\* the columns the program reads and writes in table t
ExpectedColumns(t) ==
    IF t = "players" THEN PlayersColumns
    ELSE IF t = RawTable THEN RawColumns
    ELSE SectionColumns

\* C16: from any schema state the ensure_* functions never drop a table or a
\* column, leave every expected table and column present once they have all
\* returned, and change nothing when invoked a second time.
C16_SchemaReconciled ==
    /\ [](pc = "loop" => \A t \in AllTables : ExpectedColumns(t) \subseteq schema[t])
    /\ [][\A t \in AllTables : schema[t] \subseteq schema'[t]]_vars
    /\ [][now > 1 => schema' = schema]_vars

\* the attempt to fetch usercache.json failed and was passed over
UsercacheFetchFailed == sftp_enabled /\ usercache_path = "uc_missing"

\* C17: during remote acquisition a failed fetch of usercache.json does not
\* end the acquisition: unless the connection itself fails, the step after
\* it lists the stats directory with the temporary directory kept, and the
\* download that follows returns the mirror of every stats file together with
\* its release function.
C17_UsercacheFetchOptional ==
    /\ [][(pc = "get_usercache" /\ error' # "get_usercache")
            => (pc' = "listdir" /\ temp_root' /\ outcome' = "running")]_vars
    /\ [][(pc = "download" /\ UsercacheFetchFailed /\ outcome' = "running")
            => (pc' = "stats_dir" /\ stats_dir' = files /\ cleanup_fn' /\ temp_root')]_vars

C17_Witness ==
    /\ pc = "stats_dir" /\ UsercacheFetchFailed
    /\ usercache = "uc_alice"
    /\ cleanup_fn /\ temp_root
    /\ \E u \in UUIDS : stats_dir[u] # NoFile

SchemaReady == \A t \in AllTables : schema[t] # {}
Processing == pc \in {"loop", "upsert_player", "upsert_raw", "upsert_section"}
EnsureFailed == outcome = "failed" /\ error \in {"ensure_players", "ensure_raw", "ensure_section"}

\* C18: a file is parsed and a player, raw or section row is written only
\* when the players table, the raw table and all 9 section tables exist, and
\* a run whose schema reconciliation fails has parsed no file and written
\* nothing.
C18_SchemaBeforeData ==
    /\ [](Processing => SchemaReady)
    /\ [][(tx' # tx \/ parsed' # parsed \/ processed' # processed) /\ pc' # "idle" /\ pc # "idle"
            => (Processing /\ SchemaReady)]_vars
    /\ [](EnsureFailed => (tx = before /\ committed = before /\ processed = 0
                              /\ parsed = NoParse /\ uuid = NULL))

C18_Witness ==
    /\ EnsureFailed /\ error = "ensure_section" /\ pc = "finally"
    /\ \E u \in UUIDS : stats_dir[u] # NoFile
    /\ ~SchemaReady /\ schema["players"] # {}

\* every raw record and every section row of database d belongs to a player
\* that has a row in players
References(d) ==
    /\ \A r \in d.raw : \E p \in d.players : p.uuid = r.uuid
    /\ \A t \in SectionTables : \A r \in d.sect[t] : \E p \in d.players : p.uuid = r.uuid

\* C19: in the committed database and in every intermediate state of the
\* batch transaction, each raw record and each section row refers to a player
\* that has a row in the players table.
C19_ReferentialIntegrity == References(committed) /\ References(tx)

C19_Witness ==
    /\ pc = "upsert_section" /\ pending = << >>
    /\ RowsOf(committed.players, uuid) = {}
    /\ RowsOf(tx.players, uuid) # {}
    /\ RowsOf(tx.raw, uuid) # {}
    /\ \E t \in SectionTables : RowsOf(tx.sect[t], uuid) # {}

\* the current batch holds no file of player u, or one that does not decode
\* to a JSON object
NotInBatch(u) == stats_dir[u] = NoFile \/ DocContent(stats_dir[u]).kind # "object"

\* the player row, the raw record and the section rows of player u in d
AllRowsOf(d, u) ==
    [players |-> RowsOf(d.players, u), raw |-> RowsOf(d.raw, u),
     sect |-> [t \in SectionTables |-> RowsOf(d.sect[t], u)]]

\* C20: for every player with no successfully parsed file in the current
\* batch, the player row, the raw record and all section rows are, at every
\* point of the run and after it, those of the start of the run, in the
\* transaction and in the committed database, whether the run commits or fails.
C20_OtherPlayersUntouched ==
    \A u \in UUIDS :
        NotInBatch(u) =>
            /\ AllRowsOf(committed, u) = AllRowsOf(before, u)
            /\ AllRowsOf(tx, u) = AllRowsOf(before, u)

C20_Witness ==
    /\ AfterCommit /\ processed = 1
    /\ \E u \in UUIDS, v \in UUIDS :
          /\ stats_dir[u] = NoFile
          /\ RowsOf(committed.players, u) # {} /\ RowsOf(committed.raw, u) # {}
          /\ RowsOf(committed.sect[Mined], u) # {}
          /\ AllRowsOf(committed, u) = AllRowsOf(before, u)
          /\ Parsed(v)
          /\ AllRowsOf(committed, v) # AllRowsOf(before, v)

====
